---- MODULE Spec2Model ----
(***************************************************************************)
(* Model of the multi-transport query relay of scion-coredns-doq:          *)
(*   - plugin/pkg/proxy/connect.go : Transport.Dial, Proxy.Connect and the *)
(*     adaptive dial timeout (limitTimeout / averageTimeout);              *)
(*   - core/dnsserver QUIC and SQUIC servers (src/unnamed/part_000):       *)
(*     session and stream workers, the 2-byte length framing;              *)
(*   - plugin/file/secondary.go : less, shouldTransfer, TransferIn and the *)
(*     Update loop of a secondary zone.                                    *)
(* The specifications of the module: SpecProxy, SpecDial, SpecConnect,     *)
(* SpecConnectFair and SpecSelect (the relay and the connection pool under *)
(* different loads), SpecAvg, SpecAvgFair and SpecRace (the dial-time      *)
(* average on its own), SpecQUIC (the ingress listener), SpecStop (the     *)
(* listener with Stop), SpecFrame (the framing codec on real bytes),       *)
(* SpecLess, SpecTransfer and SpecUpdate (the secondary zone).             *)
(***************************************************************************)
EXTENDS Integers, Sequences, FiniteSets, TLC

VARIABLES
    \* ---- upstream Transport and Proxy (connect.go) ----
    tlsConfig,        \* t.tlsConfig != nil
    addr,             \* p.addr: how the upstream address parses
    minDialTimeout,   \* dial-timeout floor
    maxDialTimeout,   \* dial-timeout ceiling
    avgDialTime,      \* t.avgDialTime
    conns,            \* idle cache of the coordinator, keyed by protocol
    mgr,              \* coordinator: in its select, or sending mgr.ret on t.ret
    connState,        \* per connection: "unused" | "open" | "closed"
    connKind,         \* per connection: protocol it was dialed with
    handouts,         \* per connection: number of times Dial returned it
    yieldsOf,         \* per connection: number of times it was Yielded
    tk,               \* per Connect task: position and locals
    last,             \* what the most recent Connect call returned, and how
    calls,            \* Connect calls issued so far
    env               \* the clients and the network of this run:
                      \*   tasks     concurrent Connect tasks
                      \*   budget    Connect calls the clients issue
                      \*   ids       DNS message IDs in use
                      \*   latencies dial durations the network can show
                      \*   faults    whether the upstream connection can fail
                      \*             or carry foreign and malformed replies

proxyVars == <<tlsConfig, addr, minDialTimeout, maxDialTimeout, avgDialTime,
               conns, mgr, connState, connKind, handouts, yieldsOf, tk, last,
               calls, env>>

VARIABLES
    \* ---- QUIC / SQUIC server (part_000) ----
    srvTls,           \* s.tlsConfig != nil
    mutex,            \* s.m: "free" | "held"
    listen,           \* s.listen: "nil" | "open" | "closed"
    serve,            \* ServePacket: "idle" | "accepting" | "returned"
    sess,             \* per session: "none" | "open" | "closed"
    sw,               \* per session worker: "none" | "running" | "returned"
    st,               \* per stream: its worker's position and locals
    bufFree,          \* buffers lying in s.bytesPool
    crashed,          \* an unrecovered panic has ended the process
    stop              \* Stop: "idle" | "waiting" | "locked" | "returned" |
                      \* "panicked"

quicVars == <<srvTls, mutex, listen, serve, sess, sw, st, bufFree, crashed,
              stop>>

VARIABLES
    \* ---- one framed exchange on real bytes ----
    fpl,              \* the payload: its length and fill pattern
    wire,             \* what the stream delivers: the frame and its damage
    fbuf,             \* the buffer b from s.bytesPool: bytes read, old content
    fx                \* progress and outcome of the exchange

frameVars == <<fpl, wire, fbuf, fx>>

VARIABLES
    \* ---- secondary zone (plugin/file/secondary.go) ----
    zone,             \* z: the apex SOA, z.Expired, the masters its tree came from
    masters,          \* per master of z.TransferFrom: the SOA it serves now
    upd,              \* Zone.Update: position, retryActive, the running tickers
    ev,               \* what the last iteration of Update's loop did
    sc                \* one comparison of two serials by less

zoneVars == <<zone, masters, upd, ev, sc>>

vars == <<proxyVars, quicVars, frameVars, zoneVars>>

----------------------------------------------------------------------------
(* Bounds *)
MaxCalls == 3       \* Connect calls issued in all (SpecProxy)
MaxDials == 3       \* Connect calls issued in all (SpecDial)
MaxExchanges == 2   \* Connect calls issued in all (SpecConnect)
MaxReads == 2       \* ReadMsg calls that return before the read deadline expires
MaxId    == 2       \* DNS message IDs are 0..MaxId (SpecConnect)

Tasks   == env.tasks
IDs     == env.ids
ConnIds == 1..env.budget
Nil     == 0

\* proxy_proto.Scheme of an address url.Parse accepts: "" for an address
\* without a scheme ("8.8.8.8"), and any scheme the address names
\* ("dns://8.8.8.8:53")
Schemes    == {"udp", "tcp", "", "dns"}
\* the protocols Dial sends to the coordinator
Protos     == {"udp", "tcp", "tcp-tls"} \cup Schemes
Latencies  == {0, 9, 40}             \* observed dial durations
TimeoutCfg == {<<2, 30>>, <<3, 21>>} \* <<floor, ceiling>> pairs

cumulativeAvgWeight == 4

\* opts.ForceTCP, opts.PreferUDP and state.Proto() of a Connect call
AllOpts == [forceTCP : BOOLEAN, preferUDP : BOOLEAN, stateProto : {"udp", "tcp"}]

NoMsg == [id |-> -1, seq |-> 0]

----------------------------------------------------------------------------
(* Pure helpers of connect.go *)

\* Go's integer division truncates toward zero.
GoDiv(a, b) == IF a >= 0 THEN a \div b ELSE -((-a) \div b)

limitTimeout_NoHalf(currentAvg, minValue, maxValue) ==
    IF currentAvg < minValue THEN minValue
    ELSE IF currentAvg < maxValue THEN 2 * currentAvg
    ELSE maxValue

limitTimeout(currentAvg, minValue, maxValue) ==
    IF currentAvg < minValue THEN minValue
    ELSE IF currentAvg < GoDiv(maxValue, 2) THEN 2 * currentAvg
    ELSE maxValue

averageTimeout_Slow(dt, observedDuration, weight) ==
    GoDiv(observedDuration - dt, 2 * weight)

averageTimeout_Unweighted(dt, observedDuration, weight) ==
    observedDuration - dt

\* the value averageTimeout adds to *currentAvg, from the value dt it loaded
averageTimeout(dt, observedDuration, weight) ==
    GoDiv(observedDuration - dt, weight)

\* protocol selection of Connect (lines 82-110)
selectProto(forceTCP, preferUDP, stateProto) ==
    LET byOpts == IF forceTCP THEN "tcp"
                  ELSE IF preferUDP THEN "udp"
                  ELSE stateProto
    IN  IF addr.scion THEN byOpts
        ELSE IF addr.urlErr THEN "udp"
        ELSE addr.scheme

\* protocol Dial asks the coordinator for (lines 53-55)
dialProto_AsAsked(proto) == proto

dialProto(proto) == IF tlsConfig THEN "tcp-tls" ELSE proto

\* the networks on which dns.DialTimeout (line 73) or DialTimeoutWithTLS
\* (line 69) can give a connection: the dns client dials "" as udp, and
\* net.Dial refuses a network it does not know
dialable(proto) == proto \in {"udp", "tcp", "tcp-tls", ""}

restoreId_Keep(msg, originId) == msg

\* ret.Id = originId (lines 159-161, 170)
restoreId(msg, originId) == [msg EXCEPT !.id = originId]

idMatches_Any(reqId, retId) == TRUE

\* state.Req.Id == ret.Id (line 165)
idMatches(reqId, retId) == reqId = retId

\* err.(net.Error) succeeds
isNetError(e) == e = "net"

\* the error Connect reports for a failed write or read (lines 133-136, 154-156)
connError(e, cached) == IF e = "EOF" /\ cached THEN "ErrCachedClosed" ELSE e

----------------------------------------------------------------------------
(* The coordinator of the idle cache (one per upstream) *)

\* serve a request received on t.dial: take the last idle connection of proto
managerTake(proto) ==
    IF Len(conns[proto]) > 0
    THEN [ret  |-> conns[proto][Len(conns[proto])],
          pool |-> [conns EXCEPT ![proto] = SubSeq(@, 1, Len(@) - 1)]]
    ELSE [ret |-> Nil, pool |-> conns]

\* serve a connection received on t.yield
managerPut(pool, c) == [pool EXCEPT ![connKind[c]] = Append(@, c)]

----------------------------------------------------------------------------
(* Connect tasks *)

\* origin is the client's ID (originId), reqId the current state.Req.Id,
\* proto Connect's variable and dproto Dial's; rt, timeout, lat, dt are
\* locals of the dial in progress; ret and err are Connect's ret and err
\* (err also holds the result of WriteMsg); eof says that the connection
\* held keeps the io.EOF of its peer's close.
IdleTask == [pcl |-> "idle", origin |-> 0, reqId |-> 0, sent |-> -1,
             proto |-> "udp", dproto |-> "udp", conn |-> Nil, cached |-> FALSE,
             rt |-> 0, timeout |-> 0, lat |-> 0, dt |-> 0, dialOk |-> FALSE,
             ret |-> NoMsg, err |-> "nil", reads |-> 0, spoofs |-> 0,
             eof |-> FALSE]

\* last: the returned message and error, the state.Req.Id left behind, and
\* how often the call Yielded and closed its connection.
NoCall == [returned |-> FALSE, ret |-> NoMsg, err |-> "nil", reqId |-> 0,
           yields |-> 0, closes |-> 0]

Holding(t) == tk[t].pcl \in {"write", "wrote", "read", "got", "yield"}

reqIdAtReturn_NoDefer(loc, e) == loc.reqId

\* state.Req.Id when Connect returns: the deferred function (lines 127-129)
\* runs on the returns that follow it, not on the return of line 114
reqIdAtReturn(loc, e) == IF e = "dial" THEN loc.reqId ELSE loc.origin

\* the record of a returning call: loc are the task's locals at the return
Returned(t, loc, msg, e, y, c) ==
    [returned |-> TRUE, ret |-> msg, err |-> e,
     reqId |-> reqIdAtReturn(loc, e),
     yields |-> y, closes |-> c]

\* the QUIC server and the framed exchange when they are not part of the run
QuicOff ==
    /\ srvTls = FALSE /\ mutex = "free" /\ listen = "nil" /\ serve = "idle"
    /\ sess = <<>> /\ sw = <<>> /\ st = <<>> /\ bufFree = {} /\ crashed = FALSE
    /\ stop = "idle"

FrameOff ==
    /\ fpl = [len |-> 0, fill |-> 0]
    /\ wire = [sent |-> FALSE, damage |-> "none"]
    /\ fbuf = [old |-> 0, n |-> 0]
    /\ fx = [phase |-> "off"]

\* the secondary zone when it is not part of the run
NoEvent == [tick |-> "none", active |-> FALSE, check |-> "none",
            xfer |-> "none", outs |-> <<>>, restarted |-> FALSE]

ZoneOff ==
    /\ zone = [soa |-> [serial |-> 0, times |-> <<>>], expired |-> FALSE,
               parts |-> {}]
    /\ masters = <<>>
    /\ upd = [pcl |-> "off", retryActive |-> FALSE, tickers |-> <<>>]
    /\ ev = NoEvent
    /\ sc = [a |-> 0, b |-> 0, done |-> FALSE, ab |-> FALSE, ba |-> FALSE]

InitTransport ==
    /\ QuicOff /\ FrameOff /\ ZoneOff
    /\ tlsConfig \in BOOLEAN
    /\ addr \in {[scion |-> TRUE,  urlErr |-> FALSE, scheme |-> ""],
                 [scion |-> FALSE, urlErr |-> TRUE,  scheme |-> ""]}
             \cup {[scion |-> FALSE, urlErr |-> FALSE, scheme |-> s] : s \in Schemes}
    /\ avgDialTime = 0
    /\ conns = [p \in Protos |-> <<>>]
    /\ mgr = [busy |-> FALSE, ret |-> Nil]
    /\ connState = [c \in ConnIds |-> "unused"]
    /\ connKind = [c \in ConnIds |-> "udp"]
    /\ handouts = [c \in ConnIds |-> 0]
    /\ yieldsOf = [c \in ConnIds |-> 0]
    /\ tk = [t \in Tasks |-> IdleTask]
    /\ last = NoCall
    /\ calls = 0

\* Concurrent Connect tasks over a failing upstream connection. The address
\* is a SCION one, so the protocol comes from the options; the URL branches
\* of the protocol choice are run by InitConnect.
InitProxy ==
    /\ env = [tasks |-> {1, 2}, budget |-> MaxCalls, ids |-> {0},
              latencies |-> {0}, faults |-> TRUE, opts |-> AllOpts]
    /\ InitTransport
    /\ addr.scion
    /\ minDialTimeout = 2 /\ maxDialTimeout = 30

\* Connect lines 79-110: a new call; the protocol is resolved.
ConnectStart(t) ==
    /\ tk[t].pcl = "idle"
    /\ calls < env.budget
    /\ calls' = calls + 1
    /\ \E o \in env.opts, id \in IDs :
          tk' = [tk EXCEPT ![t] =
                    [IdleTask EXCEPT !.pcl = "dial_send",
                                     !.origin = id, !.reqId = id,
                                     !.proto = selectProto(o.forceTCP, o.preferUDP,
                                                          o.stateProto)]]
    /\ UNCHANGED <<tlsConfig, addr, minDialTimeout, maxDialTimeout, avgDialTime,
                   conns, mgr, connState, connKind, handouts, yieldsOf, last,
                   env>>
    /\ UNCHANGED <<quicVars, frameVars, zoneVars>>

\* Dial lines 53-57: t.dial <- proto, received by the coordinator.
DialSend(t) ==
    /\ tk[t].pcl = "dial_send"
    /\ ~mgr.busy
    /\ LET p == dialProto(tk[t].proto)
           r == managerTake(p)
       IN  /\ conns' = r.pool
           /\ mgr' = [busy |-> TRUE, ret |-> r.ret]
           /\ tk' = [tk EXCEPT ![t].pcl = "dial_recv", ![t].dproto = p]
    /\ UNCHANGED <<tlsConfig, addr, minDialTimeout, maxDialTimeout, avgDialTime,
                   connState, connKind, handouts, yieldsOf, last, calls,
                   env>>
    /\ UNCHANGED <<quicVars, frameVars, zoneVars>>

\* Dial lines 58-67: pc := <-t.ret; a hit returns, a miss computes the timeout.
DialRecv(t) ==
    /\ tk[t].pcl = "dial_recv"
    /\ mgr.busy
    /\ mgr' = [busy |-> FALSE, ret |-> Nil]
    /\ IF mgr.ret # Nil
       THEN /\ tk' = [tk EXCEPT ![t].pcl = "write", ![t].conn = mgr.ret,
                                ![t].cached = TRUE]
            /\ handouts' = [handouts EXCEPT ![mgr.ret] = @ + 1]
       ELSE /\ tk' = [tk EXCEPT ![t].pcl = "dialing",
                                ![t].rt = avgDialTime,
                                ![t].timeout = limitTimeout(avgDialTime, minDialTimeout,
                                                            maxDialTimeout)]
            /\ UNCHANGED handouts
    /\ UNCHANGED <<tlsConfig, addr, minDialTimeout, maxDialTimeout, avgDialTime,
                   conns, connState, connKind, yieldsOf, last, calls,
                   env>>
    /\ UNCHANGED <<quicVars, frameVars, zoneVars>>

\* Dial lines 68-70 / 73-74: the dial ends after lat; averageTimeout loads
\* the average.
DialNet(t) ==
    /\ tk[t].pcl = "dialing"
    /\ \E lat \in env.latencies,
          ok \in IF dialable(tk[t].dproto) THEN BOOLEAN ELSE {FALSE} :
          tk' = [tk EXCEPT ![t].pcl = "dial_add", ![t].lat = lat,
                           ![t].dialOk = ok, ![t].dt = avgDialTime]
    /\ UNCHANGED <<tlsConfig, addr, minDialTimeout, maxDialTimeout, avgDialTime,
                   conns, mgr, connState, connKind, handouts, yieldsOf, last,
                   calls, env>>
    /\ UNCHANGED <<quicVars, frameVars, zoneVars>>

DialAdd_OnlySuccess(t) ==
    /\ tk[t].pcl = "dial_add"
    /\ IF tk[t].dialOk
       THEN \E c \in ConnIds :
              /\ connState[c] = "unused"
              /\ \A d \in ConnIds : d < c => connState[d] # "unused"
              /\ avgDialTime' = avgDialTime
                      + averageTimeout(tk[t].dt, tk[t].lat, cumulativeAvgWeight)
              /\ connState' = [connState EXCEPT ![c] = "open"]
              /\ connKind' = [connKind EXCEPT ![c] = tk[t].dproto]
              /\ handouts' = [handouts EXCEPT ![c] = 1]
              /\ tk' = [tk EXCEPT ![t].pcl = "write", ![t].conn = c,
                                  ![t].cached = FALSE, ![t].rt = 0,
                                  ![t].timeout = 0, ![t].lat = 0, ![t].dt = 0,
                                  ![t].dialOk = FALSE]
              /\ UNCHANGED last
       ELSE /\ tk' = [tk EXCEPT ![t] = IdleTask]
            /\ last' = Returned(t, tk[t], NoMsg, "dial", 0, 0)
            /\ UNCHANGED <<connState, connKind, handouts, avgDialTime>>
    /\ UNCHANGED <<tlsConfig, addr, minDialTimeout, maxDialTimeout,
                   conns, mgr, yieldsOf, calls, env>>
    /\ UNCHANGED <<quicVars, frameVars, zoneVars>>

\* averageTimeout's atomic add, then Dial returns (lines 39, 71/75) and
\* Connect checks the dial error (lines 112-115).
DialAdd(t) ==
    /\ tk[t].pcl = "dial_add"
    /\ avgDialTime' = avgDialTime
                      + averageTimeout(tk[t].dt, tk[t].lat, cumulativeAvgWeight)
    /\ IF tk[t].dialOk
       THEN \E c \in ConnIds :
              /\ connState[c] = "unused"
              /\ \A d \in ConnIds : d < c => connState[d] # "unused"
              /\ connState' = [connState EXCEPT ![c] = "open"]
              /\ connKind' = [connKind EXCEPT ![c] = tk[t].dproto]
              /\ handouts' = [handouts EXCEPT ![c] = 1]
              /\ tk' = [tk EXCEPT ![t].pcl = "write", ![t].conn = c,
                                  ![t].cached = FALSE, ![t].rt = 0,
                                  ![t].timeout = 0, ![t].lat = 0, ![t].dt = 0,
                                  ![t].dialOk = FALSE]
              /\ UNCHANGED last
       ELSE /\ tk' = [tk EXCEPT ![t] = IdleTask]
            /\ last' = Returned(t, tk[t], NoMsg, "dial", 0, 0)
            /\ UNCHANGED <<connState, connKind, handouts>>
    /\ UNCHANGED <<tlsConfig, addr, minDialTimeout, maxDialTimeout,
                   conns, mgr, yieldsOf, calls, env>>
    /\ UNCHANGED <<quicVars, frameVars, zoneVars>>

closeAndReturn_GiveBack(t, loc, msg, e) ==
    /\ connState' = [connState EXCEPT ![loc.conn] = "closed"]
    /\ conns' = managerPut(conns, loc.conn)
    /\ tk' = [tk EXCEPT ![t] = IdleTask]
    /\ last' = Returned(t, loc, msg, e, 0, 1)

closeAndReturn_NoClose(t, loc, msg, e) ==
    /\ UNCHANGED connState
    /\ UNCHANGED conns
    /\ tk' = [tk EXCEPT ![t] = IdleTask]
    /\ last' = Returned(t, loc, msg, e, 0, 0)

\* pc.c.Close() "not giving it back", return, deferred state.Req.Id = originId
\* (lines 132-136, 153-162, 127-129); loc holds the task's locals at that point
closeAndReturn(t, loc, msg, e) ==
    /\ connState' = [connState EXCEPT ![loc.conn] = "closed"]
    /\ UNCHANGED conns
    /\ tk' = [tk EXCEPT ![t] = IdleTask]
    /\ last' = Returned(t, loc, msg, e, 0, 1)

\* what WriteMsg can return
WriteResults == IF env.faults THEN {"nil", "EOF", "net"} ELSE {"nil"}

\* Connect lines 117-131: the buffer size and write deadline are set, the ID
\* is rewritten to dns.Id() and WriteMsg(state.Req) returns; sent is the ID
\* of the message written.
ConnectWrite(t) ==
    /\ tk[t].pcl = "write"
    /\ \E id \in IDs, w \in WriteResults :
          tk' = [tk EXCEPT ![t].pcl = "wrote", ![t].reqId = id, ![t].sent = id,
                           ![t].err = w]
    /\ UNCHANGED <<tlsConfig, addr, minDialTimeout, maxDialTimeout, avgDialTime,
                   conns, mgr, connState, connKind, handouts, yieldsOf, last,
                   calls, env>>
    /\ UNCHANGED <<quicVars, frameVars, zoneVars>>

\* Connect lines 131-140: a failed write closes the connection and returns;
\* otherwise the read deadline is set.
ConnectWrote(t) ==
    /\ tk[t].pcl = "wrote"
    /\ IF tk[t].err # "nil"
       THEN closeAndReturn(t, tk[t], NoMsg, connError(tk[t].err, tk[t].cached))
       ELSE /\ tk' = [tk EXCEPT ![t].pcl = "read"]
            /\ UNCHANGED <<connState, conns, last>>
    /\ UNCHANGED <<tlsConfig, addr, minDialTimeout, maxDialTimeout, avgDialTime,
                   mgr, connKind, handouts, yieldsOf, calls, env>>
    /\ UNCHANGED <<quicVars, frameVars, zoneVars>>

\* what one ReadMsg call can deliver: a reply, or an error with or without a
\* (partially unpacked) message; without faults, the reply to the query
ReadResults(n, sentId) ==
    IF env.faults
    THEN [err : {"nil"}, id : IDs, seq : {n}]
         \cup [err : {"EOF", "net", "other"}, id : {-1}, seq : {0}]
         \cup [err : {"other"}, id : IDs, seq : {n}]
    ELSE {[err |-> "nil", id |-> sentId, seq |-> n]}

\* the read deadline (line 140) is set once: a ReadMsg that waits on the
\* network after MaxReads calls have returned fails with a timeout
Deadline == [err |-> "net", id |-> -1, seq |-> 0]

\* a TLS connection keeps the io.EOF of its peer's close: every later read
\* returns it at once, without waiting on the network, and so without
\* regard to the read deadline
keepsEOF(kind) == kind = "tcp-tls"

PeerClosed == [err |-> "EOF", id |-> -1, seq |-> 0]

\* Connect line 142: ret, err = pc.c.ReadMsg(); reads counts the calls that
\* waited on the network
ConnectReadMsg(t) ==
    /\ tk[t].pcl = "read"
    /\ \E r \in IF tk[t].eof THEN {PeerClosed}
                ELSE IF tk[t].reads < MaxReads
                THEN ReadResults(tk[t].reads + 1, tk[t].sent)
                ELSE {Deadline} :
          tk' = [tk EXCEPT ![t].pcl = "got",
                           ![t].reads = IF tk[t].eof THEN @ ELSE @ + 1,
                           ![t].err = r.err,
                           ![t].ret = [id |-> r.id, seq |-> r.seq],
                           ![t].eof = r.err = "EOF"
                                         /\ keepsEOF(connKind[tk[t].conn])]
    /\ UNCHANGED <<tlsConfig, addr, minDialTimeout, maxDialTimeout, avgDialTime,
                   conns, mgr, connState, connKind, handouts, yieldsOf, last,
                   calls, env>>
    /\ UNCHANGED <<quicVars, frameVars, zoneVars>>

\* the loop's next iteration (continue on line 150, fall-through of line 165):
\* back to ReadMsg; SetReadDeadline (line 140) lies before the loop, so the
\* time already spent reading stays spent
continueLoop(loc) ==
    [loc EXCEPT !.pcl = "read", !.ret = NoMsg, !.err = "nil"]

\* Connect lines 143-170: the rest of one iteration of the read-and-match loop.
ConnectGot(t) ==
    /\ tk[t].pcl = "got"
    /\ LET loc == tk[t]
           again == continueLoop(loc)
       IN  IF loc.err # "nil"
           THEN IF loc.proto = "udp" /\ ~isNetError(loc.err)
                THEN /\ tk' = [tk EXCEPT ![t] = again]
                     /\ UNCHANGED <<connState, conns, last>>
                ELSE IF loc.err = "EOF" /\ loc.cached
                THEN closeAndReturn(t, loc, NoMsg, connError(loc.err, loc.cached))
                ELSE closeAndReturn(t, loc,
                                    IF loc.ret # NoMsg
                                    THEN restoreId(loc.ret, loc.origin) ELSE NoMsg,
                                    connError(loc.err, loc.cached))
           ELSE IF idMatches(loc.reqId, loc.ret.id)
                THEN /\ tk' = [tk EXCEPT ![t].pcl = "yield",
                                         ![t].ret = restoreId(loc.ret, loc.origin)]
                     /\ UNCHANGED <<connState, conns, last>>
                ELSE /\ tk' = [tk EXCEPT ![t] = [again EXCEPT !.spoofs = @ + 1]]
                     /\ UNCHANGED <<connState, conns, last>>
    /\ UNCHANGED <<tlsConfig, addr, minDialTimeout, maxDialTimeout, avgDialTime,
                   mgr, connKind, handouts, yieldsOf, calls, env>>
    /\ UNCHANGED <<quicVars, frameVars, zoneVars>>

ConnectYield_Skip(t) ==
    /\ tk[t].pcl = "yield"
    /\ ~mgr.busy
    /\ UNCHANGED <<conns, yieldsOf>>
    /\ tk' = [tk EXCEPT ![t] = IdleTask]
    /\ last' = Returned(t, tk[t], tk[t].ret, "nil", 0, 0)
    /\ UNCHANGED <<tlsConfig, addr, minDialTimeout, maxDialTimeout, avgDialTime,
                   mgr, connState, connKind, handouts, calls, env>>
    /\ UNCHANGED <<quicVars, frameVars, zoneVars>>

\* Connect lines 172-183: Yield hands the connection to the coordinator,
\* then return ret, nil; the deferred function restores state.Req.Id.
ConnectYield(t) ==
    /\ tk[t].pcl = "yield"
    /\ ~mgr.busy
    /\ conns' = managerPut(conns, tk[t].conn)
    /\ yieldsOf' = [yieldsOf EXCEPT ![tk[t].conn] = @ + 1]
    /\ tk' = [tk EXCEPT ![t] = IdleTask]
    /\ last' = Returned(t, tk[t], tk[t].ret, "nil", 1, 0)
    /\ UNCHANGED <<tlsConfig, addr, minDialTimeout, maxDialTimeout, avgDialTime,
                   mgr, connState, connKind, handouts, calls, env>>
    /\ UNCHANGED <<quicVars, frameVars, zoneVars>>

NextProxy ==
    \E t \in Tasks :
        \/ ConnectStart(t)
        \/ DialSend(t)
        \/ DialRecv(t)
        \/ DialNet(t)
        \/ DialAdd(t)
        \/ ConnectWrite(t)
        \/ ConnectWrote(t)
        \/ ConnectReadMsg(t)
        \/ ConnectGot(t)
        \/ ConnectYield(t)

SpecProxy == InitProxy /\ [][NextProxy]_vars

\* The same relay over a well-behaved upstream connection, with varying dial
\* durations and floor/ceiling pairs.
InitDial ==
    /\ env = [tasks |-> {1, 2}, budget |-> MaxDials, ids |-> {0},
              latencies |-> Latencies, faults |-> FALSE,
              opts |-> AllOpts]
    /\ InitTransport
    /\ addr.scion
    /\ \E cfg \in TimeoutCfg : minDialTimeout = cfg[1] /\ maxDialTimeout = cfg[2]

SpecDial == InitDial /\ [][NextProxy]_vars

\* One client at a time over a failing upstream connection that also carries
\* replies with foreign IDs.
InitConnect ==
    /\ env = [tasks |-> {1}, budget |-> MaxExchanges, ids |-> 0..MaxId,
              latencies |-> {0}, faults |-> TRUE, opts |-> AllOpts]
    /\ InitTransport
    /\ minDialTimeout = 2 /\ maxDialTimeout = 30

SpecConnect == InitConnect /\ [][NextProxy]_vars

MaxReturns == 1     \* Connect calls issued in all (SpecConnectFair)

\* One client over a failing upstream connection that carries replies with
\* the ID of the query and with a foreign one.
InitConnectFair ==
    /\ env = [tasks |-> {1}, budget |-> MaxReturns, ids |-> {0, 1},
              latencies |-> {0}, faults |-> TRUE, opts |-> AllOpts]
    /\ InitTransport
    /\ minDialTimeout = 2 /\ maxDialTimeout = 30

\* A scheduler that lets a running call take its steps: the coordinator
\* goroutine serves its channels and every library call (dial, WriteMsg,
\* ReadMsg) returns, at the latest at its deadline.
SpecConnectFair == InitConnectFair /\ [][NextProxy]_vars /\ WF_vars(NextProxy)

\* Calls of one client that all carry the same options, over a sound
\* upstream connection.
InitSelect ==
    /\ \E o \in AllOpts :
          env = [tasks |-> {1}, budget |-> MaxExchanges, ids |-> {0},
                 latencies |-> {0}, faults |-> FALSE, opts |-> {o}]
    /\ InitTransport
    /\ minDialTimeout = 2 /\ maxDialTimeout = 30

SpecSelect == InitSelect /\ [][NextProxy]_vars

----------------------------------------------------------------------------
(* Properties of the relay and the pool *)

\* the connections idle in the cache or in flight from the coordinator
Idle == {c \in ConnIds :
            \/ \E p \in Protos : \E i \in 1..Len(conns[p]) : conns[p][i] = c
            \/ (mgr.busy /\ mgr.ret = c)}

\* task t's step returns from Connect
Returns(t) == tk[t].pcl # "idle" /\ tk'[t].pcl = "idle"

\* C1: a connection handed out by Dial is held by one caller at a time; it
\* is idle in the cache only while nobody holds it, it is handed out again
\* only after a Yield, and a closed connection is neither idle nor held.
C1_PoolExclusivity ==
    /\ \A t1 \in Tasks, t2 \in Tasks :
          (t1 # t2 /\ Holding(t1) /\ Holding(t2)) => tk[t1].conn # tk[t2].conn
    /\ \A t \in Tasks : Holding(t) =>
          /\ tk[t].conn \notin Idle
          /\ connState[tk[t].conn] = "open"
    /\ \A c \in Idle : connState[c] = "open"
    /\ \A c \in ConnIds : handouts[c] <= yieldsOf[c] + 1
    /\ \A p \in Protos : \A i \in 1..Len(conns[p]), j \in 1..Len(conns[p]) :
          conns[p][i] = conns[p][j] => i = j

\* two callers hold connections at once, one of them Yielded by an earlier
\* call and handed out a second time
C1_Witness ==
    \E t1 \in Tasks, t2 \in Tasks :
        /\ t1 # t2 /\ Holding(t1) /\ Holding(t2)
        /\ tk[t1].cached /\ handouts[tk[t1].conn] = 2

\* C2: a returned non-nil message carries the client's original ID, and so
\* not the generated upstream ID when the two differ.
C2_IdRestoration ==
    [][\A t \in Tasks :
          (Returns(t) /\ last'.ret # NoMsg) =>
             /\ last'.ret.id = tk[t].origin
             /\ (tk[t].reqId # tk[t].origin => last'.ret.id # tk[t].reqId)]_vars

\* a failed call returned a message
C2_Witness == last.returned /\ last.ret # NoMsg /\ last.err = "other"

\* C3: after N >= 1 discarded replies with foreign IDs, a successfully read
\* reply with the generated ID is accepted: it is the message returned, with
\* a nil error; a reply with a foreign ID is discarded, the loop reads again
\* and the connection stays open.
C3_SpoofRejection ==
    [][\A t \in Tasks :
          (tk[t].pcl = "got" /\ tk[t].err = "nil" /\ tk'[t] # tk[t]) =>
             IF tk[t].ret.id = tk[t].reqId
             THEN /\ tk'[t].pcl = "yield"
                  /\ tk'[t].ret.seq = tk[t].ret.seq
                  /\ connState'[tk[t].conn] = "open"
             ELSE /\ tk'[t].pcl = "read"
                  /\ tk'[t].spoofs = tk[t].spoofs + 1
                  /\ connState'[tk[t].conn] = "open"
                  /\ last' = last]_vars
    /\ [][\A t \in Tasks :
          (tk[t].pcl = "yield" /\ Returns(t)) =>
             /\ last'.err = "nil"
             /\ last'.ret = tk[t].ret
             /\ last'.ret.seq = tk[t].reads
             /\ last'.closes = 0]_vars

\* a call returned the reply it read after discarding a foreign one
C3_Witness ==
    /\ last.returned /\ last.err = "nil" /\ last.ret.seq = 2
    /\ \E c \in ConnIds : connState[c] = "open" /\ yieldsOf[c] > 0

\* C4 as stated: a write or read failing with io.EOF ends Connect with
\* ErrCachedClosed on a cached connection and with io.EOF on a fresh one,
\* whatever the protocol.
C4_StaleSignaling ==
    [][\A t \in Tasks :
          (tk[t].pcl \in {"wrote", "got"} /\ tk[t].err = "EOF" /\ tk'[t] # tk[t]) =>
             /\ Returns(t)
             /\ last'.err = IF tk[t].cached THEN "ErrCachedClosed" ELSE "EOF"]_vars

\* C5: a call returning a nil error has Yielded its connection once, open,
\* into the idle cache.
C5_SuccessYields ==
    [][\A t \in Tasks :
          (Returns(t) /\ last'.err = "nil") =>
             /\ last'.yields = 1 /\ last'.closes = 0
             /\ yieldsOf'[tk[t].conn] = yieldsOf[tk[t].conn] + 1
             /\ connState'[tk[t].conn] = "open"
             /\ conns'[connKind[tk[t].conn]] =
                   Append(conns[connKind[tk[t].conn]], tk[t].conn)]_vars

\* a call returned a nil error
C5_Witness == last.returned /\ last.err = "nil" /\ last.yields = 1

\* C6: a call returning an error after acquiring a connection has closed it
\* and not Yielded it, and a closed connection is never idle in the cache
\* nor held by a caller again.
C6_ErrorDiscards ==
    /\ [][\A t \in Tasks :
             (Returns(t) /\ Holding(t) /\ last'.err # "nil") =>
                /\ connState'[tk[t].conn] = "closed"
                /\ last'.closes = 1 /\ last'.yields = 0
                /\ yieldsOf'[tk[t].conn] = yieldsOf[tk[t].conn]
                /\ conns' = conns]_vars
    /\ [](\A c \in ConnIds : connState[c] = "closed" =>
             /\ c \notin Idle
             /\ \A t \in Tasks : Holding(t) => tk[t].conn # c)
    /\ [][\A c \in ConnIds : connState[c] = "closed" =>
             /\ connState'[c] = "closed"
             /\ handouts'[c] = handouts[c]]_vars

\* a call failed on a connection reused from the cache, and a later Dial
\* has handed out another connection
C6_Witness ==
    /\ last.returned /\ last.err = "ErrCachedClosed" /\ last.closes = 1
    /\ \E t \in Tasks : Holding(t)

\* C10: the dial timeout is the floor below the floor, twice the average
\* from the floor up to half the ceiling, the ceiling otherwise, and lies
\* between floor and ceiling.
C10_TimeoutPolicy ==
    \A t \in Tasks : tk[t].pcl \in {"dialing", "dial_add"} =>
        LET avg == tk[t].rt
            to  == tk[t].timeout
        IN  /\ avg < minDialTimeout => to = minDialTimeout
            /\ (minDialTimeout <= avg /\ avg < maxDialTimeout \div 2) => to = 2 * avg
            /\ (minDialTimeout <= avg /\ avg >= maxDialTimeout \div 2) => to = maxDialTimeout
            /\ minDialTimeout <= to /\ to <= maxDialTimeout

\* a dial uses twice an average lying between the floor and half the ceiling
C10_Witness ==
    \E t \in Tasks :
        /\ tk[t].pcl = "dialing"
        /\ minDialTimeout <= tk[t].rt /\ tk[t].rt < maxDialTimeout \div 2
        /\ tk[t].timeout = 2 * tk[t].rt


-----------------------------------------------------------------------------
(* The DNS-over-QUIC ingress: ServerQUIC and ServerSQUIC (part_000).        *)
(* The two servers run the same code over quic-go and over SCION QUIC.      *)

\* bounds of the ingress runs
MaxSessions == 2
MaxStreams == 2
MaxFill == 1

\* const minDNSPacketSize = 12 + 5
minDNSPacketSize == 17
MaxMsgSize == 65535

Sessions == 1..MaxSessions
Streams == 1..MaxStreams
BufIds == 1..MaxStreams

\* the relay when it is not part of the run
ProxyOff ==
    /\ env = [tasks |-> {}, budget |-> 0, ids |-> {}, latencies |-> {},
              faults |-> FALSE, opts |-> {}]
    /\ tlsConfig = FALSE
    /\ addr = [scion |-> TRUE, urlErr |-> FALSE, scheme |-> ""]
    /\ minDialTimeout = 2 /\ maxDialTimeout = 30
    /\ avgDialTime = 0
    /\ conns = [p \in Protos |-> <<>>]
    /\ mgr = [busy |-> FALSE, ret |-> Nil]
    /\ connState = <<>> /\ connKind = <<>> /\ handouts = <<>> /\ yieldsOf = <<>>
    /\ tk = <<>>
    /\ last = NoCall
    /\ calls = 0

\* addPrefix: uint16(len(b)) big-endian, then the bytes of b
addPrefix_LittleEndian(b) ==
    <<Len(b) % 256, (Len(b) % 65536) \div 256>> \o b

addPrefix(b) ==
    <<(Len(b) % 65536) \div 256, Len(b) % 256>> \o b

\* binary.BigEndian.Uint16(b[:2])
Uint16(b) == b[1] * 256 + b[2]

\* handleQUICStream after stream.Read returned n: the size test and the
\* comparison of the declared length with the bytes read
frameCheck_Loose(n, msg_len) ==
    IF n < minDNSPacketSize THEN "short"
    ELSE IF msg_len > n - 2 THEN "panic"
    ELSE "ok"

frameCheck(n, msg_len) ==
    IF n < minDNSPacketSize THEN "short"
    ELSE IF msg_len # n - 2 THEN "panic"
    ELSE "ok"

\* the test after stream.Write(addPrefix(buf)) returned (n, e)
writePanics(n, e, lenbuf) == e /\ n # lenbuf


\* a stream worker before its stream is accepted
NoStream ==
    [sess |-> 0, pcl |-> "none", dns |-> "none", buf |-> 0, serves |-> 0,
     resp |-> FALSE, writes |-> 0, sent |-> FALSE, closes |-> 0,
     exit |-> "none"]

\* what stream.Read and msg.Unpack give a worker: the bytes read, the length
\* the first two bytes declare, and what the bytes after them decode to
StreamInputs ==
    {[n |-> minDNSPacketSize - 1, msg_len |-> minDNSPacketSize - 3, dns |-> "query"],
     [n |-> 40, msg_len |-> 39, dns |-> "query"],
     [n |-> 40, msg_len |-> 38, dns |-> "garbage"],
     [n |-> 40, msg_len |-> 38, dns |-> "query"],
     [n |-> 40, msg_len |-> 38, dns |-> "keepalive"]}

\* len(buf) of a packed response
RespLen == 30

\* len(buf) after buf, _ := dw.Msg.Pack(): Pack's error is dropped, and buf
\* is nil when Pack failed
PackLens == {0, RespLen}

\* stream.Write(addPrefix(buf)) returns (n, e); a closed session takes no bytes
streamWrite(closed, lenbuf) ==
    IF closed THEN {[n |-> 0, e |-> TRUE]}
    ELSE {[n |-> lenbuf + 2, e |-> FALSE],
          [n |-> lenbuf, e |-> TRUE],
          [n |-> 0, e |-> TRUE]}

InitQUIC ==
    /\ ProxyOff /\ FrameOff /\ ZoneOff
    /\ srvTls \in BOOLEAN
    /\ mutex = "free" /\ listen = "nil" /\ serve = "idle"
    /\ sess = [s \in Sessions |-> "none"]
    /\ sw = [s \in Sessions |-> "none"]
    /\ st = [x \in Streams |-> NoStream]
    /\ bufFree = {}
    /\ crashed = FALSE
    /\ stop = "idle"

ServePacket_NoTlsCheck ==
    /\ ~crashed /\ serve = "idle" /\ mutex = "free"
    /\ \E listenOk \in BOOLEAN :
          IF listenOk
          THEN listen' = "open" /\ mutex' = "free" /\ serve' = "accepting"
          ELSE listen' = listen /\ mutex' = "held" /\ serve' = "returned"
    /\ UNCHANGED <<srvTls, sess, sw, st, bufFree, crashed>>
    /\ UNCHANGED <<proxyVars, frameVars, zoneVars, stop>>

\* ServePacket lines 72-85: lock, check the TLS config, listen, unlock
ServePacket ==
    /\ ~crashed /\ serve = "idle" /\ mutex = "free"
    /\ \E listenOk \in BOOLEAN :
          IF srvTls /\ listenOk
          THEN listen' = "open" /\ mutex' = "free" /\ serve' = "accepting"
          ELSE listen' = listen /\ mutex' = "held" /\ serve' = "returned"
    /\ UNCHANGED <<srvTls, sess, sw, st, bufFree, crashed>>
    /\ UNCHANGED <<proxyVars, frameVars, zoneVars, stop>>

\* ServePacket lines 87-94: Accept gives a session, a worker is started
ServeAccept ==
    /\ ~crashed /\ serve = "accepting" /\ listen = "open"
    /\ \E s \in Sessions :
          /\ sess[s] = "none"
          /\ \A r \in Sessions : r < s => sess[r] # "none"
          /\ sess' = [sess EXCEPT ![s] = "open"]
          /\ sw' = [sw EXCEPT ![s] = "running"]
    /\ UNCHANGED <<srvTls, mutex, listen, serve, st, bufFree, crashed>>
    /\ UNCHANGED <<proxyVars, frameVars, zoneVars, stop>>

\* ServePacket lines 88-91: Accept fails and ServePacket returns
ServeAcceptErr ==
    /\ ~crashed /\ serve = "accepting"
    /\ serve' = "returned"
    /\ UNCHANGED <<srvTls, mutex, listen, sess, sw, st, bufFree, crashed>>
    /\ UNCHANGED <<proxyVars, frameVars, zoneVars, stop>>

\* handleQUICSession lines 137-147: AcceptStream gives a stream of an open
\* session, a stream worker is started
SessionAcceptStream(s) ==
    /\ ~crashed /\ sw[s] = "running" /\ sess[s] = "open"
    /\ \E x \in Streams :
          /\ st[x].pcl = "none"
          /\ \A y \in Streams : y < x => st[y].pcl # "none"
          /\ st' = [st EXCEPT ![x] = [NoStream EXCEPT !.sess = s, !.pcl = "spawned"]]
    /\ UNCHANGED <<srvTls, mutex, listen, serve, sess, sw, bufFree, crashed>>
    /\ UNCHANGED <<proxyVars, frameVars, zoneVars, stop>>

SessionAcceptErr_NoClose(s) ==
    /\ ~crashed /\ sw[s] = "running"
    /\ sw' = [sw EXCEPT ![s] = "returned"]
    /\ UNCHANGED <<srvTls, mutex, listen, serve, sess, st, bufFree, crashed>>
    /\ UNCHANGED <<proxyVars, frameVars, zoneVars, stop>>

\* handleQUICSession lines 137-143: AcceptStream fails (always so once the
\* session is closed); the session is closed and its worker returns
SessionAcceptErr(s) ==
    /\ ~crashed /\ sw[s] = "running"
    /\ sess' = [sess EXCEPT ![s] = "closed"]
    /\ sw' = [sw EXCEPT ![s] = "returned"]
    /\ UNCHANGED <<srvTls, mutex, listen, serve, st, bufFree, crashed>>
    /\ UNCHANGED <<proxyVars, frameVars, zoneVars, stop>>

\* the stream worker returns: deferred bytesPool.Put(b), then the
\* stream.Close() of the goroutine (line 146); the goroutine has ended and
\* its references to the buffer and to the session are gone
streamReturn(x, loc, exit) ==
    /\ st' = [st EXCEPT ![x] = [loc EXCEPT !.pcl = "done", !.sess = 0,
                                           !.buf = 0,
                                           !.closes = loc.closes + 1,
                                           !.exit = exit]]
    /\ bufFree' = bufFree \cup {loc.buf}
    /\ UNCHANGED crashed

streamPanic_NoPut(x, loc, exit) ==
    /\ st' = [st EXCEPT ![x] = [loc EXCEPT !.pcl = "done", !.sess = 0,
                                           !.exit = exit]]
    /\ bufFree' = bufFree
    /\ crashed' = TRUE

\* the stream worker panics: the deferred Put runs, nothing recovers
streamPanic(x, loc, exit) ==
    /\ st' = [st EXCEPT ![x] = [loc EXCEPT !.pcl = "done", !.sess = 0,
                                           !.buf = 0, !.exit = exit]]
    /\ bufFree' = bufFree \cup {loc.buf}
    /\ crashed' = TRUE

\* bytesPool.Get: a pooled buffer or a new one
poolGet == bufFree \cup {CHOOSE b \in BufIds :
                            /\ b \notin bufFree
                            /\ \A x \in Streams : st[x].buf # b}

\* handleQUICStream lines 154-156: the worker takes a buffer from the pool
\* and then waits in stream.Read
HandleGet(x) ==
    /\ ~crashed /\ st[x].pcl = "spawned"
    /\ \E b \in poolGet :
          /\ st' = [st EXCEPT ![x] = [@ EXCEPT !.pcl = "read", !.buf = b]]
          /\ bufFree' = bufFree \ {b}
    /\ UNCHANGED <<srvTls, mutex, listen, serve, sess, sw, crashed>>
    /\ UNCHANGED <<proxyVars, frameVars, zoneVars, stop>>

\* handleQUICStream lines 163-194: stream.Read returns, check the frame,
\* unpack, close the session on an edns-tcp-keepalive option
HandleRead(x) ==
    /\ ~crashed /\ st[x].pcl = "read"
    /\ \E in \in StreamInputs :
          LET loc == [st[x] EXCEPT !.dns = in.dns]
              chk == frameCheck(in.n, in.msg_len)
          IN  /\ IF chk = "short" THEN streamReturn(x, loc, "short")
                 ELSE IF chk = "panic" THEN streamPanic(x, loc, "mismatch")
                 ELSE IF in.dns = "garbage" THEN streamReturn(x, loc, "invalid")
                 ELSE /\ st' = [st EXCEPT ![x] = [loc EXCEPT !.pcl = "serve"]]
                      /\ UNCHANGED <<bufFree, crashed>>
              /\ sess' = IF chk = "ok" /\ in.dns = "keepalive"
                         THEN [sess EXCEPT ![st[x].sess] = "closed"]
                         ELSE sess
    /\ UNCHANGED <<srvTls, mutex, listen, serve, sw>>
    /\ UNCHANGED <<proxyVars, frameVars, zoneVars, stop>>

\* the write of lines 211-219 and the end of the worker
writeResponse(x, loc) ==
    \E lenbuf \in PackLens :
    \E w \in streamWrite(sess[loc.sess] = "closed", lenbuf) :
        LET wrote == [loc EXCEPT !.writes = @ + 1, !.sent = ~w.e]
        IN  IF writePanics(w.n, w.e, lenbuf)
            THEN streamPanic(x, wrote, "wfail")
            ELSE streamReturn(x, wrote, IF w.e THEN "werr" ELSE "ok")

HandleServe_NoNilCheck(x) ==
    /\ ~crashed /\ st[x].pcl = "serve"
    /\ \E resp \in BOOLEAN :
          writeResponse(x, [st[x] EXCEPT !.serves = @ + 1, !.resp = resp])
    /\ UNCHANGED <<srvTls, mutex, listen, serve, sess, sw>>
    /\ UNCHANGED <<proxyVars, frameVars, zoneVars, stop>>

\* handleQUICStream lines 197-220: the chain runs once; without a response
\* the stream is closed and the worker returns; otherwise the response is
\* packed, framed and written
HandleServe(x) ==
    /\ ~crashed /\ st[x].pcl = "serve"
    /\ \E resp \in BOOLEAN :
          LET loc == [st[x] EXCEPT !.serves = @ + 1, !.resp = resp]
          IN  IF ~resp
              THEN streamReturn(x, [loc EXCEPT !.closes = @ + 1], "noresp")
              ELSE writeResponse(x, loc)
    /\ UNCHANGED <<srvTls, mutex, listen, serve, sess, sw>>
    /\ UNCHANGED <<proxyVars, frameVars, zoneVars, stop>>

NextQUIC ==
    \/ ServePacket
    \/ ServeAccept
    \/ ServeAcceptErr
    \/ \E s \in Sessions : SessionAcceptStream(s)
    \/ \E s \in Sessions : SessionAcceptErr(s)
    \/ \E x \in Streams : HandleGet(x)
    \/ \E x \in Streams : HandleRead(x)
    \/ \E x \in Streams : HandleServe(x)

SpecQUIC == InitQUIC /\ [][NextQUIC]_vars

-----------------------------------------------------------------------------
(* One framed exchange on real bytes: a client frames a payload with        *)
(* addPrefix, the bytes may be damaged on the way, and a stream worker      *)
(* reads them into a pooled buffer and checks the length prefix.            *)

\* payload lengths around the limits of the frame
PayloadLens ==
    {0, 300} \cup {minDNSPacketSize - k : k \in 1..4}
             \cup {MaxMsgSize + k : k \in -2..1}

Payload(d) == [i \in 1..d.len |-> (d.fill * 7 + i) % 256]

NewExchange ==
    [phase |-> "new", tampered |-> FALSE, partial |-> FALSE, n |-> 0,
     outcome |-> "none", unpacked |-> FALSE, served |-> FALSE]

\* the bytes are damaged: another declared length, a byte lost, a byte added
Damages == {"higher", "lower", "cut", "extra"}

Damaged(w, damage) ==
    CASE damage = "none"   -> w
      [] damage = "higher" -> <<w[1], (w[2] + 1) % 256>> \o SubSeq(w, 3, Len(w))
      [] damage = "lower"  -> <<w[1], (w[2] + 255) % 256>> \o SubSeq(w, 3, Len(w))
      [] damage = "cut"    -> SubSeq(w, 1, Len(w) - 1)
      [] damage = "extra"  -> w \o <<0>>

\* the bytes the stream delivers: the frame of the payload, as damaged
WireBytes ==
    IF wire.sent THEN Damaged(addPrefix(Payload(fpl)), wire.damage) ELSE <<>>

\* the buffer b: the bytes read so far, then what the buffer held before
BufAfter(n) ==
    SubSeq(WireBytes, 1, n) \o [i \in 1..(MaxMsgSize - n) |-> fbuf.old]

BufBytes == BufAfter(fbuf.n)

\* bytesPool.New (line 56) makes a zeroed buffer; a pooled one keeps old bytes
InitFrame ==
    /\ ProxyOff /\ QuicOff /\ ZoneOff
    /\ fpl \in [len : PayloadLens, fill : 0..MaxFill]
    /\ wire = [sent |-> FALSE, damage |-> "none"]
    /\ fbuf \in [old : {0, 255}, n : {0}]
    /\ fx = NewExchange

\* the sender frames the payload with addPrefix and writes it to the stream
FrameWrite ==
    /\ fx.phase = "new"
    /\ wire' = [wire EXCEPT !.sent = TRUE]
    /\ fx' = [fx EXCEPT !.phase = "framed"]
    /\ UNCHANGED <<fpl, fbuf>>
    /\ UNCHANGED <<proxyVars, quicVars, zoneVars>>

Tamper ==
    /\ fx.phase = "framed" /\ ~fx.tampered
    /\ \E d \in Damages : wire' = [wire EXCEPT !.damage = d]
    /\ fx' = [fx EXCEPT !.tampered = TRUE]
    /\ UNCHANGED <<fpl, fbuf>>
    /\ UNCHANGED <<proxyVars, quicVars, zoneVars>>

\* stream.Read(b): at most len(b) bytes, possibly fewer than were sent
ReadCounts(w) ==
    LET full == IF Len(w) < MaxMsgSize THEN Len(w) ELSE MaxMsgSize
    IN  {full} \cup (IF full > 0 THEN {full - 1} ELSE {})

\* handleQUICStream lines 163-202 on the bytes of the stream
HandleFrame ==
    /\ fx.phase = "framed"
    /\ \E n \in ReadCounts(WireBytes), unpackOk \in BOOLEAN :
          /\ fbuf' = [fbuf EXCEPT !.n = n]
          /\ LET chk == frameCheck(n, Uint16(BufAfter(n)))
             IN  fx' = [fx EXCEPT
                          !.phase = "handled",
                          !.partial = (n \notin {Len(WireBytes), MaxMsgSize}),
                          !.n = n,
                          !.outcome = IF chk = "ok" /\ ~unpackOk
                                      THEN "invalid" ELSE chk,
                          !.unpacked = (chk = "ok"),
                          !.served = (chk = "ok" /\ unpackOk)]
    /\ UNCHANGED <<fpl, wire>>
    /\ UNCHANGED <<proxyVars, quicVars, zoneVars>>

NextFrame ==
    \/ FrameWrite
    \/ Tamper
    \/ HandleFrame

SpecFrame == InitFrame /\ [][NextFrame]_vars

C9_FramingRejectsCorruption ==
    (fx.phase = "handled" /\ Uint16(BufBytes) # fx.n - 2)
        => /\ fx.outcome \in {"short", "panic"}
           /\ ~fx.unpacked /\ ~fx.served

C9_Witness ==
    /\ fx.phase = "handled" /\ fx.tampered
    /\ fx.n >= minDNSPacketSize
    /\ Uint16(BufBytes) < fx.n - 2
    /\ fx.outcome = "panic" /\ ~fx.unpacked


\* C7 as stated: once a worker has found the edns-tcp-keepalive option in
\* its query, the session is closed, the session's worker accepts no more
\* streams, and the stream worker writes no response.
C7_ForbiddenOptionAbort ==
    /\ [](\A x \in Streams :
            /\ (st[x].dns = "keepalive" /\ st[x].pcl = "serve")
                  => sess[st[x].sess] = "closed"
            /\ (st[x].dns = "keepalive" /\ st[x].pcl \in {"serve", "done"})
                  => st[x].writes = 0)
    /\ [][\A x \in Streams :
            (st[x].pcl = "none" /\ st'[x].pcl # "none")
                => sess[st'[x].sess] = "open"]_vars


-----------------------------------------------------------------------------
(* The adaptive dial timeout on its own: one goroutine feeds observed dial  *)
(* durations into the average, one after the other.                         *)

MaxAvg == 70        \* the average starts in 0..MaxAvg
MaxObs == 130       \* observed dial durations are 0..MaxObs

\* <<floor, ceiling>> pairs
AvgCfg == {<<2, 30>>, <<10, 61>>}

\* Transport.dialTimeout (lines 42-44)
dialTimeout == limitTimeout(avgDialTime, minDialTimeout, maxDialTimeout)

\* the duration every dial of the run is observed to take
Observed == CHOOSE L \in env.latencies : TRUE

\* the distance 2 * (weight - 1) that the truncated division can leave
\* between twice the average and twice the observed duration
Residue == 2 * (cumulativeAvgWeight - 1)

InitAvg ==
    /\ QuicOff /\ FrameOff /\ ZoneOff
    /\ \E L \in 0..MaxObs :
          env = [tasks |-> {1}, budget |-> 0, ids |-> {}, latencies |-> {L},
                 faults |-> FALSE, opts |-> {}]
    /\ tlsConfig = FALSE
    /\ addr = [scion |-> TRUE, urlErr |-> FALSE, scheme |-> ""]
    /\ \E cfg \in AvgCfg : minDialTimeout = cfg[1] /\ maxDialTimeout = cfg[2]
    /\ avgDialTime \in 0..MaxAvg
    /\ conns = [p \in Protos |-> <<>>]
    /\ mgr = [busy |-> FALSE, ret |-> Nil]
    /\ connState = <<>> /\ connKind = <<>> /\ handouts = <<>> /\ yieldsOf = <<>>
    /\ tk = [t \in {1} |-> IdleTask]
    /\ last = NoCall
    /\ calls = 0

\* updateDialTimeout (lines 46-48) by one goroutine: averageTimeout loads
\* the average and adds the weighted difference; dt and lat keep what it used
updateDialTimeout ==
    /\ \E L \in env.latencies :
          /\ avgDialTime' = avgDialTime
                            + averageTimeout(avgDialTime, L, cumulativeAvgWeight)
          /\ tk' = [tk EXCEPT ![1].pcl = "observed", ![1].dt = avgDialTime,
                              ![1].lat = L]
    /\ UNCHANGED <<tlsConfig, addr, minDialTimeout, maxDialTimeout, conns, mgr,
                   connState, connKind, handouts, yieldsOf, last, calls, env>>
    /\ UNCHANGED <<quicVars, frameVars, zoneVars>>

NextAvg == updateDialTimeout

SpecAvg == InitAvg /\ [][NextAvg]_vars

\* the observations keep coming
SpecAvgFair == SpecAvg /\ WF_vars(updateDialTimeout)

Near(a, b, d) == a - b <= d /\ b - a <= d

\* C11 as stated: with a constant observed duration L, floor < L < ceiling/2,
\* the dial timeout eventually stays within the division's residue of 2*L.
C11_TimeoutConvergence ==
    (minDialTimeout < Observed /\ Observed < GoDiv(maxDialTimeout, 2))
        => <>[]Near(dialTimeout, 2 * Observed, Residue)

\* C11 amended: the same for floor + weight - 1 <= L < ceiling/2 - (weight - 1),
\* where the average cannot come to rest below the floor or at half the
\* ceiling.
C11_TimeoutConvergenceInside ==
    (/\ minDialTimeout + cumulativeAvgWeight - 1 <= Observed
     /\ Observed < GoDiv(maxDialTimeout, 2) - (cumulativeAvgWeight - 1))
        => <>[]Near(dialTimeout, 2 * Observed, Residue)

\* an average that started far away has come to rest and the timeout is near
C11_Witness ==
    /\ minDialTimeout + cumulativeAvgWeight - 1 <= Observed
    /\ Observed < GoDiv(maxDialTimeout, 2) - (cumulativeAvgWeight - 1)
    /\ tk[1].pcl = "observed" /\ tk[1].dt = avgDialTime
    /\ avgDialTime # Observed
    /\ dialTimeout = 2 * avgDialTime
    /\ Near(dialTimeout, 2 * Observed, Residue)


\* a step that folds one observation at or above the ceiling into the average
ObservesCeiling ==
    /\ tk'[1].pcl = "observed" /\ tk'[1].dt = avgDialTime
    /\ tk'[1].lat >= maxDialTimeout

\* C12 as stated: one observation at or above the ceiling, from any average,
\* makes the next dial timeout the ceiling.
C12_CeilingObservation ==
    [][ObservesCeiling => dialTimeout' = maxDialTimeout]_vars

\* C12 amended: such an observation moves the average a quarter of the way;
\* the next timeout is the ceiling exactly when the new average has reached
\* half the ceiling. That is so from an average of half the ceiling or more,
\* and from the initial average 0 exactly for observations of four times
\* half the ceiling or more.
C12_CeilingObservationWeighted ==
    [][ObservesCeiling =>
        LET half == GoDiv(maxDialTimeout, 2)
            obs  == tk'[1].lat
        IN  /\ (dialTimeout' = maxDialTimeout) <=> (avgDialTime' >= half)
            /\ avgDialTime >= half => dialTimeout' = maxDialTimeout
            /\ avgDialTime = 0 =>
                 ((dialTimeout' = maxDialTimeout)
                     <=> (obs >= cumulativeAvgWeight * half))]_vars

\* an observation of the ceiling was folded into the initial average 0 and
\* the timeout is below the ceiling
C12_Witness ==
    /\ tk[1].pcl = "observed" /\ tk[1].dt = 0
    /\ tk[1].lat = maxDialTimeout
    /\ avgDialTime = GoDiv(maxDialTimeout, cumulativeAvgWeight)
    /\ dialTimeout < maxDialTimeout


-----------------------------------------------------------------------------
(* Properties of the ingress workers *)

\* exits of a stream worker after a failure of its own exchange
LocalFailures == {"short", "mismatch", "invalid", "noresp", "werr", "wfail"}

\* C13: a failure of one exchange, such as a length mismatch, leaves the
\* process running: the listener still accepts sessions and every other
\* stream worker in flight can still take its next step.
C13_ExchangeIsolation ==
    \A x \in Streams :
        st[x].exit \in LocalFailures =>
            /\ ~crashed
            /\ \A y \in Streams :
                  st[y].pcl \in {"spawned", "read", "serve"}
                      => ENABLED (HandleGet(y) \/ HandleRead(y) \/ HandleServe(y))
            /\ (serve = "accepting" /\ \E s \in Sessions : sess[s] = "none")
                  => ENABLED ServeAccept

\* a worker's step in which stream.Write failed
WriteFails(x) ==
    /\ st[x].pcl = "serve" /\ st'[x].pcl = "done"
    /\ st'[x].writes = st[x].writes + 1
    /\ ~st'[x].sent

\* C14: when the write of the framed response fails or falls short, the
\* stream worker returns normally; the session and the process go on.
C14_WriteFailureLocal ==
    [][\A x \in Streams :
          WriteFails(x) => /\ crashed' = crashed
                           /\ sess' = sess
                           /\ st'[x].exit = "werr"]_vars

\* C15: whichever way a stream worker ends, it has closed its stream.
C15_StreamClosedOnExit ==
    \A x \in Streams : st[x].pcl = "done" => st[x].closes >= 1


-----------------------------------------------------------------------------
(* Properties of the protocol choice *)

\* the options of the calls of a run whose calls all carry the same ones
TheOpts == CHOOSE o \in env.opts : TRUE

\* C16: the protocol Connect hands to Dial is the scheme of the upstream
\* address when it names one; otherwise tcp under ForceTCP, else udp under
\* PreferUDP, else the protocol of the client.
C16_ProtocolSelection ==
    \A t \in Tasks :
        tk[t].pcl # "idle" =>
            tk[t].proto =
                IF ~addr.scion /\ ~addr.urlErr /\ addr.scheme # ""
                THEN addr.scheme
                ELSE IF TheOpts.forceTCP THEN "tcp"
                ELSE IF TheOpts.preferUDP THEN "udp"
                ELSE TheOpts.stateProto

\* C17: with a TLS configuration Dial asks for and dials tcp-tls whatever
\* protocol the caller named; without one it uses the caller's protocol.
C17_TlsForced ==
    /\ \A t \in Tasks :
          tk[t].pcl \in {"dial_recv", "dialing", "dial_add"} =>
              tk[t].dproto = IF tlsConfig THEN "tcp-tls" ELSE tk[t].proto
    /\ \A t \in Tasks :
          (Holding(t) /\ ~tk[t].cached) =>
              connKind[tk[t].conn] = IF tlsConfig THEN "tcp-tls" ELSE tk[t].proto

\* a caller that named udp holds a connection newly dialled as tcp-tls
C17_Witness ==
    /\ tlsConfig
    /\ \E t \in Tasks :
          /\ Holding(t) /\ ~tk[t].cached
          /\ tk[t].proto = "udp"
          /\ connKind[tk[t].conn] = "tcp-tls"


-----------------------------------------------------------------------------
(* Properties of the listener *)

\* ServePacket returns before its accept loop
FailsToServe ==
    serve' = "returned" /\ listen' = "nil" /\ sess' = sess

\* sessions are accepted only by a listening server inside the accept loop,
\* and the loop is left only by its return on an Accept error
AcceptLoop ==
    /\ \A s \in Sessions :
          (sess[s] = "none" /\ sess'[s] # "none")
              => (srvTls /\ serve = "accepting" /\ listen = "open")
    /\ (serve = "accepting" /\ serve' # "accepting")
          => (serve' = "returned" /\ sess' = sess /\ st' = st)

\* C18 as stated: without a TLS configuration ServePacket fails before it
\* binds an endpoint or accepts a session; with one it enters the accept
\* loop, which it leaves only when Accept returns an error.
C18_ServePacket ==
    [][/\ (serve = "idle" /\ serve' # "idle") =>
             IF srvTls THEN serve' = "accepting" /\ listen' = "open"
             ELSE FailsToServe
       /\ AcceptLoop]_vars

\* C18 amended: with a TLS configuration ServePacket enters the accept loop
\* when quic.Listen succeeds and returns the error of quic.Listen otherwise.
C18_ServePacketListen ==
    [][/\ (serve = "idle" /\ serve' # "idle") =>
             IF srvTls
             THEN \/ serve' = "accepting" /\ listen' = "open"
                  \/ FailsToServe
             ELSE FailsToServe
       /\ AcceptLoop]_vars

\* ServePacket has failed on a server without TLS configuration
C18_Witness ==
    /\ ~srvTls /\ serve = "returned"
    /\ listen = "nil"
    /\ \A s \in Sessions : sess[s] = "none"


-----------------------------------------------------------------------------
(* Properties of the query ID *)

\* C19: the message written upstream carries the generated ID that
\* state.Req.Id then holds, the client's ID being kept aside; Connect
\* returns with state.Req.Id equal to the client's ID on every exit; up to a
\* dial failure the ID is not touched.
C19_IdRewriting ==
    /\ [](\A t \in Tasks :
            /\ tk[t].pcl \in {"wrote", "read", "got", "yield"}
                  => tk[t].sent = tk[t].reqId
            /\ tk[t].pcl \in {"dial_send", "dial_recv", "dialing", "dial_add", "write"}
                  => (tk[t].reqId = tk[t].origin /\ tk[t].sent = -1))
    /\ [][\A t \in Tasks :
            /\ (tk[t].pcl # "idle" /\ tk'[t].pcl # "idle")
                  => tk'[t].origin = tk[t].origin
            /\ Returns(t) => last'.reqId = tk[t].origin]_vars

\* a call whose ID was rewritten to another one is about to return on a
\* read error
C19_Witness ==
    \E t \in Tasks :
        /\ tk[t].pcl = "got" /\ tk[t].err = "net"
        /\ tk[t].sent = tk[t].reqId
        /\ tk[t].reqId # tk[t].origin


\* C20: on every stream the chain is entered at most once and at most one
\* response is written, only after the query was read and decoded and only
\* when the chain produced one; without one nothing is written.
C20_OneExchangePerStream ==
    \A x \in Streams :
        /\ st[x].serves <= 1 /\ st[x].writes <= 1
        /\ st[x].serves = 1 => st[x].dns \in {"query", "keepalive"}
        /\ st[x].writes = 1 => (st[x].serves = 1 /\ st[x].resp)
        /\ (st[x].serves = 1 /\ ~st[x].resp) => (st[x].writes = 0 /\ ~st[x].sent)
        /\ st[x].sent => st[x].writes = 1

\* one stream ended after the response was written, another after the chain
\* gave none
C20_Witness ==
    \E x, y \in Streams :
        /\ st[x].exit = "ok" /\ st[x].serves = 1 /\ st[x].writes = 1 /\ st[x].sent
        /\ st[y].exit = "noresp" /\ st[y].serves = 1 /\ st[y].writes = 0

-----------------------------------------------------------------------------
(* Termination of Connect *)

AllTasks == {1, 2}

\* task t is inside a Connect call
InConnect(t) == t \in Tasks /\ tk[t].pcl # "idle"

\* C21 as stated: every Connect call returns, whatever replies and errors
\* its reads deliver.
C21_ConnectReturns ==
    \A t \in AllTasks : InConnect(t) ~> ~InConnect(t)

\* the connection was dialled on a datagram network ("" is dialled as udp)
isDatagram(kind) == kind \in {"udp", ""}

\* C22 as stated: after a failed ReadMsg the loop reads again, with the
\* connection neither closed nor returned, only when the connection in use
\* is a datagram one and the error is no network error; any read error on a
\* stream connection, and a network error on a datagram one, closes the
\* connection and ends Connect.
C22_ReadErrorByTransport ==
    [][\A t \in Tasks :
          (tk[t].pcl = "got" /\ tk[t].err # "nil" /\ tk'[t] # tk[t]) =>
             /\ ~Returns(t) =>
                   /\ isDatagram(connKind[tk[t].conn]) /\ ~isNetError(tk[t].err)
                   /\ tk'[t].pcl = "read"
                   /\ connState'[tk[t].conn] = "open"
                   /\ conns' = conns /\ last' = last
             /\ (~isDatagram(connKind[tk[t].conn]) \/ isNetError(tk[t].err)) =>
                   /\ Returns(t)
                   /\ connState'[tk[t].conn] = "closed"
                   /\ last'.closes = 1 /\ last'.err # "nil"]_vars

-----------------------------------------------------------------------------
(* Session workers *)

\* the step starts a stream worker on session s
AcceptsOn(s) ==
    \E x \in Streams : st[x].pcl = "none" /\ st'[x].pcl = "spawned"
                                           /\ st'[x].sess = s

\* C23: a session worker ends only on a failed AcceptStream, and in that
\* step it closes its session and leaves the listener loop, the other
\* session workers and the other sessions as they are; a worker that has
\* ended stays so, and no stream is accepted on its session any more.
C23_SessionAcceptFailure ==
    /\ [][\A s \in Sessions :
             (sw[s] = "running" /\ sw'[s] # "running") =>
                /\ sw'[s] = "returned" /\ sess'[s] = "closed"
                /\ serve' = serve /\ listen' = listen /\ crashed' = crashed
                /\ st' = st
                /\ \A r \in Sessions \ {s} : sw'[r] = sw[r] /\ sess'[r] = sess[r]]_vars
    /\ [][\A s \in Sessions :
             sw[s] = "returned" => (sw'[s] = "returned" /\ ~AcceptsOn(s))]_vars
    /\ [][\A s \in Sessions : AcceptsOn(s) => sw[s] = "running"]_vars

\* a session worker has ended on a failed AcceptStream while the listener
\* accepts and a stream was accepted on the other session
C23_Witness ==
    \E s, r \in Sessions :
        /\ sw[s] = "returned" /\ sess[s] = "closed"
        /\ r # s /\ sw[r] = "running" /\ sess[r] = "open"
        /\ serve = "accepting" /\ ~crashed
        /\ \E x, y \in Streams :
               /\ st[y].sess = s /\ st[x].sess = r /\ y < x
               /\ st[x].pcl = "spawned"

-----------------------------------------------------------------------------
(* Dial and the average *)

\* C24: a dial attempt computes its timeout from the average as it stands
\* before the attempt and folds its duration into the average once, when
\* the dial has ended, successful or not; nothing else changes the
\* average. A cache hit hands the cached connection to the caller with
\* wasCached = true, without a dial and without touching the average.
C24_DialFoldsOnce ==
    [][\A t \in Tasks :
          /\ (tk[t].pcl = "dial_recv" /\ tk'[t] # tk[t]) =>
                /\ avgDialTime' = avgDialTime
                /\ IF mgr.ret # Nil
                   THEN /\ tk'[t].pcl = "write" /\ tk'[t].cached
                        /\ tk'[t].conn = mgr.ret
                   ELSE /\ tk'[t].pcl = "dialing"
                        /\ tk'[t].timeout = limitTimeout(avgDialTime, minDialTimeout,
                                                         maxDialTimeout)
          /\ (tk[t].pcl = "dialing" /\ tk'[t] # tk[t]) =>
                tk'[t].pcl = "dial_add" /\ avgDialTime' = avgDialTime
          /\ (tk[t].pcl = "dial_add" /\ tk'[t] # tk[t]) =>
                /\ avgDialTime' = avgDialTime
                      + GoDiv(tk[t].lat - tk[t].dt, cumulativeAvgWeight)
                /\ tk'[t].pcl = IF tk[t].dialOk THEN "write" ELSE "idle"
                /\ tk[t].dialOk => ~tk'[t].cached]_vars
    /\ [][avgDialTime' # avgDialTime =>
             \E t \in Tasks : tk[t].pcl = "dial_add" /\ tk'[t] # tk[t]]_vars

\* a failed dial has moved the average, and a connection was handed out a
\* second time, from the cache
C24_Witness ==
    /\ last.returned /\ last.err = "dial" /\ avgDialTime > 0
    /\ \E c \in ConnIds : handouts[c] = 2

-----------------------------------------------------------------------------
(* Concurrent updates of the average: several dials to one upstream end at  *)
(* about the same time and each calls updateDialTimeout.                    *)

MaxRacers == 5      \* concurrent updateDialTimeout calls

Racers == 1..MaxRacers
RaceStarts == {0, 17}       \* the average before the calls
RaceObserved == {0, 40}     \* the dial durations they observed

\* all dials of a run took the same time, which every call holds in lat; rt
\* is the average before the calls
InitRace ==
    /\ QuicOff /\ FrameOff /\ ZoneOff
    /\ env = [tasks |-> Racers, budget |-> 0, ids |-> {}, latencies |-> RaceObserved,
              faults |-> FALSE, opts |-> {}]
    /\ tlsConfig = FALSE
    /\ addr = [scion |-> TRUE, urlErr |-> FALSE, scheme |-> ""]
    /\ minDialTimeout = 2 /\ maxDialTimeout = 30
    /\ avgDialTime \in RaceStarts
    /\ conns = [p \in Protos |-> <<>>]
    /\ mgr = [busy |-> FALSE, ret |-> Nil]
    /\ connState = <<>> /\ connKind = <<>> /\ handouts = <<>> /\ yieldsOf = <<>>
    /\ \E obs \in RaceObserved :
          tk = [t \in Racers |-> [IdleTask EXCEPT !.pcl = "update",
                                                  !.rt = avgDialTime,
                                                  !.lat = obs]]
    /\ last = NoCall
    /\ calls = 0

\* averageTimeout line 38: dt := atomic.LoadInt64(currentAvg)
averageLoad(t) ==
    /\ tk[t].pcl = "update"
    /\ tk' = [tk EXCEPT ![t].pcl = "loaded", ![t].dt = avgDialTime]
    /\ UNCHANGED <<tlsConfig, addr, minDialTimeout, maxDialTimeout, avgDialTime,
                   conns, mgr, connState, connKind, handouts, yieldsOf, last,
                   calls, env>>
    /\ UNCHANGED <<quicVars, frameVars, zoneVars>>

\* averageTimeout line 39: atomic.AddInt64(currentAvg, (observed - dt) / weight)
averageAdd(t) ==
    /\ tk[t].pcl = "loaded"
    /\ avgDialTime' = avgDialTime
                      + averageTimeout(tk[t].dt, tk[t].lat, cumulativeAvgWeight)
    /\ tk' = [tk EXCEPT ![t].pcl = "observed"]
    /\ UNCHANGED <<tlsConfig, addr, minDialTimeout, maxDialTimeout,
                   conns, mgr, connState, connKind, handouts, yieldsOf, last,
                   calls, env>>
    /\ UNCHANGED <<quicVars, frameVars, zoneVars>>

NextRace ==
    \E t \in Tasks :
        \/ averageLoad(t)
        \/ averageAdd(t)

SpecRace == InitRace /\ [][NextRace]_vars

RECURSIVE SerialResults(_, _)
\* the averages that the calls of the tasks in S, run one after another in
\* some order from the average a, can leave
SerialResults(a, S) ==
    IF S = {} THEN {a}
    ELSE UNION {SerialResults(a + averageTimeout(a, tk[t].lat, cumulativeAvgWeight),
                              S \ {t}) : t \in S}

\* the calls that have ended, and the average before all of them
Ended == {t \in Tasks : tk[t].pcl = "observed"}
StartAvg == tk[1].rt

\* the least and the greatest of the average before the calls and the
\* durations that calls have loaded or folded in
SpanLow ==
    LET V == {StartAvg} \cup {tk[t].lat : t \in {u \in Tasks : tk[u].pcl # "update"}}
    IN  CHOOSE v \in V : \A w \in V : v <= w
SpanHigh ==
    LET V == {StartAvg} \cup {tk[t].lat : t \in {u \in Tasks : tk[u].pcl # "update"}}
    IN  CHOOSE v \in V : \A w \in V : v >= w

\* C25 as stated: whenever no call is between its load and its add, the
\* average is what the ended calls would leave if run one after another in
\* some order, and the average always lies between the least and the
\* greatest of its starting value and the observed durations.
C25_AtomicAveraging ==
    /\ (\A t \in Tasks : tk[t].pcl # "loaded")
          => avgDialTime \in SerialResults(StartAvg, Ended)
    /\ SpanLow <= avgDialTime /\ avgDialTime <= SpanHigh

-----------------------------------------------------------------------------
(* The buffer pool of the stream workers *)

\* the stream workers inside handleQUICStream, and the buffers checked out
RunningWorkers == {x \in Streams : st[x].pcl \notin {"none", "spawned", "done"}}
CheckedOut == {st[x].buf : x \in {y \in Streams : st[y].buf # 0}}

\* C26: a buffer checked out is held by one stream worker and does not lie
\* in the pool; a worker that has left the handler, by return or by panic,
\* holds none, so that the buffers checked out are never more than the
\* running workers and none is checked out when no worker runs.
C26_BufferOwnership ==
    /\ \A x, y \in Streams :
          (x # y /\ st[x].buf # 0) => st[x].buf # st[y].buf
    /\ CheckedOut \cap bufFree = {}
    /\ \A x \in Streams : st[x].buf # 0 => x \in RunningWorkers
    /\ Cardinality(CheckedOut) <= Cardinality(RunningWorkers)
    /\ RunningWorkers = {} => CheckedOut = {}

\* a worker has left by the panic of a failed write and its buffer lies in
\* the pool, while another worker waits in stream.Read with its buffer
C26_Witness ==
    \E x, y \in Streams :
        /\ st[x].pcl = "done" /\ st[x].exit = "wfail" /\ st[x].buf = 0
        /\ bufFree # {}
        /\ st[y].pcl = "read" /\ st[y].buf # 0

-----------------------------------------------------------------------------
(* The secondary zone (plugin/file/secondary.go): serial comparison,        *)
(* TransferIn over the masters of z.TransferFrom, and the Update loop.      *)

\* const MaxSerialIncrement uint32 = 2147483647
MaxSerialIncrement == 2147483647

MaxSerialEdge == 2  \* serials compared lie within this of 0, 2^31 and 2^32

\* A uint32 is kept as its two 16-bit halves, value = hi * 2^16 + lo.
Half == 65536
U32(hi, lo) == [hi |-> hi, lo |-> lo]
FromInt(n) == U32(n \div Half, n % Half)

\* a < b and a <= b on uint32
Lt(a, b) == a.hi < b.hi \/ (a.hi = b.hi /\ a.lo < b.lo)
Le(a, b) == a = b \/ Lt(a, b)

\* a - b on uint32, wrapping modulo 2^32
Sub(a, b) ==
    LET borrow == IF a.lo < b.lo THEN 1 ELSE 0
    IN  U32((a.hi - b.hi - borrow + Half) % Half, (a.lo - b.lo + Half) % Half)

\* the serials compared: around 0, 2^16, 2^31 and 2^32
EdgeSerials ==
    {U32(0, lo) : lo \in 0..MaxSerialEdge}
    \cup {U32(1, 0)}
    \cup {U32(Half \div 2 - 1, lo) : lo \in (Half - MaxSerialEdge)..(Half - 1)}
    \cup {U32(Half \div 2, lo) : lo \in 0..MaxSerialEdge}
    \cup {U32(Half - 1, lo) : lo \in (Half - 1 - MaxSerialEdge)..(Half - 1)}

less_Plain(a, b) == Lt(a, b)

\* less (lines 213-218)
less(a, b) ==
    IF Lt(a, b) THEN Le(Sub(b, a), FromInt(MaxSerialIncrement))
    ELSE ~Le(Sub(a, b), FromInt(MaxSerialIncrement))

InitLess ==
    /\ ProxyOff /\ QuicOff /\ FrameOff
    /\ zone = [soa |-> [serial |-> 0, times |-> <<>>], expired |-> FALSE,
               parts |-> {}]
    /\ masters = <<>>
    /\ upd = [pcl |-> "off", retryActive |-> FALSE, tickers |-> <<>>]
    /\ ev = NoEvent
    /\ \E a \in EdgeSerials, b \in EdgeSerials :
          sc = [a |-> a, b |-> b, done |-> FALSE, ab |-> FALSE, ba |-> FALSE]

\* less(a, b) and less(b, a) are called
Compare ==
    /\ ~sc.done
    /\ sc' = [sc EXCEPT !.done = TRUE, !.ab = less(sc.a, sc.b),
                        !.ba = less(sc.b, sc.a)]
    /\ UNCHANGED <<zone, masters, upd, ev>>
    /\ UNCHANGED <<proxyVars, quicVars, frameVars>>

NextLess == Compare

SpecLess == InitLess /\ [][NextLess]_vars

\* b is ahead of a by 1..MaxSerialIncrement, modulo 2^32
AheadOf(a, b) ==
    LET d == Sub(b, a)
    IN  d # U32(0, 0) /\ Le(d, FromInt(MaxSerialIncrement))

\* a and b lie 2^31 apart
Halfway(a, b) == Sub(a, b) = U32(Half \div 2, 0)

\* C29 as stated: less is irreflexive, decides every pair of different
\* serials one way, and less(a, b) holds exactly when b is ahead of a by
\* 1..MaxSerialIncrement modulo 2^32.
C29_SerialOrder ==
    sc.done =>
        /\ sc.a = sc.b => ~sc.ab
        /\ sc.a # sc.b => (sc.ab # sc.ba)
        /\ sc.ab <=> AheadOf(sc.a, sc.b)

\* C29 amended: less is irreflexive, decides every pair of different
\* serials one way, and less(a, b) holds exactly when b is ahead of a by
\* 1..MaxSerialIncrement modulo 2^32, or a and b lie 2^31 apart and a is
\* the greater of the two as a plain number.
C29_SerialOrderHalfway ==
    sc.done =>
        /\ sc.a = sc.b => ~sc.ab
        /\ sc.a # sc.b => (sc.ab # sc.ba)
        /\ sc.ab <=> \/ AheadOf(sc.a, sc.b)
                     \/ (Halfway(sc.a, sc.b) /\ Lt(sc.b, sc.a))

\* two serials 2^31 apart were compared, and the greater counts as less
C29_Witness ==
    /\ sc.done /\ Halfway(sc.a, sc.b) /\ Lt(sc.b, sc.a)
    /\ sc.ab /\ ~sc.ba

-----------------------------------------------------------------------------
(* TransferIn and shouldTransfer over the masters of z.TransferFrom *)

MaxMasters == 2     \* masters in z.TransferFrom
MaxZoneSerial == 2  \* the masters publish serials 0..MaxZoneSerial

\* refresh, retry and expire of the SOA that carries a serial
SoaTimes(serial) ==
    IF serial % 2 = 0 THEN [refresh |-> 3, retry |-> 1, expire |-> 9]
    ELSE [refresh |-> 2, retry |-> 1, expire |-> 5]

SoaOf(serial) == [serial |-> serial, times |-> SoaTimes(serial)]

TransferFrom == 1..Len(masters)

\* what one master makes of the SOA query of shouldTransfer: Exchange
\* fails, the reply has another rcode than success, a reply without a SOA
\* in its answer section, a reply with the master's SOA
SoaReplies == {"err", "rcode", "nosoa", "soa"}

\* what happens to the transfer from one master: an address that does not
\* resolve, a failed dial, t.In failing, an envelope with an error, a record
\* that z1.Insert rejects, or a complete transfer
TransferResults == {"resolve", "dial", "setup", "envelope", "insert", "ok"}

RECURSIVE soaScan(_, _, _)
\* the loop of shouldTransfer (lines 172-202) from master i on
soaScan(replies, i, Err) ==
    IF i > Len(replies) THEN [serial |-> -1, Err |-> Err]
    ELSE IF replies[i] = "err" THEN soaScan(replies, i + 1, "err")
    ELSE IF replies[i] \in {"rcode", "nosoa"} THEN soaScan(replies, i + 1, "nil")
    ELSE [serial |-> masters[i], Err |-> "nil"]

\* shouldTransfer (lines 163-210): the pair it returns
shouldTransfer(replies) ==
    LET r == soaScan(replies, 1, "nil")
    IN  IF r.serial = -1 THEN [ok |-> FALSE, err |-> r.Err]
        ELSE [ok |-> less(FromInt(zone.soa.serial), FromInt(r.serial)),
              err |-> r.Err]

RECURSIVE transferScan(_, _, _, _)
\* the loop of TransferIn (lines 35-147) from master i on; parts are the
\* masters from which records were inserted in z1
transferScan(outs, i, Err, parts) ==
    IF i > Len(outs) THEN [how |-> "end", Err |-> Err, tr |-> i - 1, parts |-> parts]
    ELSE IF outs[i] \in {"resolve", "dial"}
    THEN [how |-> "return", Err |-> outs[i], tr |-> i, parts |-> parts]
    ELSE IF outs[i] \in {"setup", "envelope"}
    THEN transferScan(outs, i + 1, outs[i], parts)
    ELSE IF outs[i] = "insert"
    THEN transferScan(outs, i + 1, outs[i], parts \cup {i})
    ELSE [how |-> "break", Err |-> "nil", tr |-> i, parts |-> parts \cup {i}]

\* TransferIn, had it cleared Expired before looking at Err
TransferIn_ClearFirst(outs) ==
    IF Len(outs) = 0 THEN [err |-> "nil", zone |-> zone, tr |-> 0]
    ELSE LET r == transferScan(outs, 1, "nil", {})
         IN  IF r.how = "break"
             THEN [err |-> "nil", tr |-> r.tr,
                   zone |-> [soa |-> SoaOf(masters[r.tr]), expired |-> FALSE,
                             parts |-> r.parts]]
             ELSE [err |-> r.Err, tr |-> r.tr,
                   zone |-> [zone EXCEPT !.expired = FALSE]]

\* TransferIn (lines 22-159): the error it returns, the zone it leaves and
\* the last master it turned to
TransferIn(outs) ==
    IF Len(outs) = 0 THEN [err |-> "nil", zone |-> zone, tr |-> 0]
    ELSE LET r == transferScan(outs, 1, "nil", {})
         IN  IF r.how = "break"
             THEN [err |-> "nil", tr |-> r.tr,
                   zone |-> [soa |-> SoaOf(masters[r.tr]), expired |-> FALSE,
                             parts |-> r.parts]]
             ELSE [err |-> r.Err, zone |-> zone, tr |-> r.tr]

\* sequences of length n over S
SeqsOf(S, n) == [1..n -> S]

\* a zone transferred earlier from its first master, and its masters
InitTransfer ==
    /\ ProxyOff /\ QuicOff /\ FrameOff
    /\ \E n \in 1..MaxMasters : masters \in [1..n -> 0..MaxZoneSerial]
    /\ \E e \in BOOLEAN :
          zone = [soa |-> SoaOf(0), expired |-> e, parts |-> {1}]
    /\ upd = [pcl |-> "off", retryActive |-> FALSE, tickers |-> <<>>]
    /\ ev = NoEvent
    /\ sc = [a |-> 0, b |-> 0, done |-> FALSE, ab |-> FALSE, ba |-> FALSE]

\* one call of TransferIn
TransferInCall ==
    /\ ev.tick = "none"
    /\ \E outs \in SeqsOf(TransferResults, Len(masters)) :
          LET x == TransferIn(outs)
          IN  /\ zone' = x.zone
              /\ ev' = [NoEvent EXCEPT !.tick = "transfer", !.outs = outs,
                                       !.xfer = x.err]
    /\ UNCHANGED <<masters, upd, sc>>
    /\ UNCHANGED <<proxyVars, quicVars, frameVars>>

NextTransfer == TransferInCall

SpecTransfer == InitTransfer /\ [][NextTransfer]_vars

\* the first master of the call whose transfer completes, 0 if none does
FirstComplete(outs) ==
    IF \E i \in 1..Len(outs) : outs[i] = "ok"
    THEN CHOOSE i \in 1..Len(outs) :
            outs[i] = "ok" /\ \A j \in 1..(i - 1) : outs[j] # "ok"
    ELSE 0

\* C30 as stated: TransferIn sets the zone live from the first master whose
\* transfer completes, whatever failed with the masters before it, and
\* returns an error only when the transfer has failed with every master.
C30_TransferTriesAll ==
    [][ev'.tick = "transfer" =>
          LET f == FirstComplete(ev'.outs)
          IN  IF f # 0
              THEN /\ ev'.xfer = "nil"
                   /\ zone'.soa = SoaOf(masters[f])
                   /\ ~zone'.expired
              ELSE /\ ev'.xfer # "nil"
                   /\ zone' = zone]_vars

-----------------------------------------------------------------------------
(* Zone.Update: the refresh, retry and expire tickers of a secondary zone *)

\* Update is called on a zone that has its SOA, transferred from its first
\* master; the masters serve the same serial or a later one
InitUpdate ==
    /\ ProxyOff /\ QuicOff /\ FrameOff
    /\ \E n \in 1..MaxMasters : masters \in [1..n -> 0..MaxZoneSerial]
    /\ zone = [soa |-> SoaOf(0), expired |-> FALSE, parts |-> {1}]
    /\ upd = [pcl |-> "start", retryActive |-> FALSE, tickers |-> <<>>]
    /\ ev = NoEvent
    /\ sc = [a |-> 0, b |-> 0, done |-> FALSE, ab |-> FALSE, ba |-> FALSE]

\* a master publishes a new version of the zone
Publish ==
    /\ \E m \in TransferFrom :
          /\ masters[m] < MaxZoneSerial
          /\ masters' = [masters EXCEPT ![m] = @ + 1]
    /\ UNCHANGED <<zone, upd, ev, sc>>
    /\ UNCHANGED <<proxyVars, quicVars, frameVars>>

\* the tickers made at Restart (lines 231-238) from the SOA in soa
restart_KeepTickers(soa) ==
    [pcl |-> "select", retryActive |-> FALSE, tickers |-> upd.tickers]

\* "no errors, stop timers and restart" (lines 268-273, 294-299, 231-238)
restart(soa) ==
    [pcl |-> "select", retryActive |-> FALSE, tickers |-> soa.times]

\* Update lines 224-238: retryActive := false, the first tickers
UpdateStart ==
    /\ upd.pcl = "start"
    /\ upd' = restart(zone.soa)
    /\ UNCHANGED <<zone, masters, ev, sc>>
    /\ UNCHANGED <<proxyVars, quicVars, frameVars>>

expire_Always(active) == TRUE

\* the expire case marks the zone (lines 243-246)
expire(active) == active

\* case <-expireTicker.C (lines 242-246)
ExpireTick ==
    /\ upd.pcl = "select"
    /\ zone' = IF expire(upd.retryActive) THEN [zone EXCEPT !.expired = TRUE]
               ELSE zone
    /\ ev' = [NoEvent EXCEPT !.tick = "expire", !.active = upd.retryActive]
    /\ UNCHANGED <<masters, upd, sc>>
    /\ UNCHANGED <<proxyVars, quicVars, frameVars>>

\* what shouldTransfer and TransferIn can return, whatever the masters do
Checks == {shouldTransfer(replies) : replies \in SeqsOf(SoaReplies, Len(masters))}
Transfers == {TransferIn(outs) : outs \in SeqsOf(TransferResults, Len(masters))}

\* shouldTransfer and, if it says so, TransferIn, as the retry and the
\* refresh case run them: the outcome, and the zone left behind
checkAndTransfer(c, x) ==
    IF c.err # "nil" THEN [check |-> "err", xfer |-> "none", zone |-> zone]
    ELSE IF c.ok THEN [check |-> "newer", xfer |-> x.err, zone |-> x.zone]
    ELSE [check |-> "current", xfer |-> "none", zone |-> zone]

\* the check or the transfer of an iteration failed
Failed(r) == r.check = "err" \/ r.xfer \notin {"none", "nil"}

\* case <-retryTicker.C (lines 248-273)
RetryTick ==
    /\ upd.pcl = "select"
    /\ IF ~upd.retryActive
       THEN /\ ev' = [NoEvent EXCEPT !.tick = "retry"]
            /\ UNCHANGED <<zone, upd>>
       ELSE \E c \in Checks, x \in Transfers :
              LET r == checkAndTransfer(c, x)
              IN  /\ zone' = r.zone
                  /\ upd' = IF Failed(r) THEN upd ELSE restart(r.zone.soa)
                  /\ ev' = [NoEvent EXCEPT !.tick = "retry", !.active = TRUE,
                                           !.check = r.check, !.xfer = r.xfer,
                                           !.restarted = ~Failed(r)]
    /\ UNCHANGED <<masters, sc>>
    /\ UNCHANGED <<proxyVars, quicVars, frameVars>>

\* case <-refreshTicker.C (lines 275-299)
RefreshTick ==
    /\ upd.pcl = "select"
    /\ \E c \in Checks, x \in Transfers :
          LET r == checkAndTransfer(c, x)
          IN  /\ zone' = r.zone
              /\ upd' = IF Failed(r) THEN [upd EXCEPT !.retryActive = TRUE]
                        ELSE restart(r.zone.soa)
              /\ ev' = [NoEvent EXCEPT !.tick = "refresh",
                                       !.active = upd.retryActive,
                                       !.check = r.check, !.xfer = r.xfer,
                                       !.restarted = ~Failed(r)]
    /\ UNCHANGED <<masters, sc>>
    /\ UNCHANGED <<proxyVars, quicVars, frameVars>>

NextUpdate ==
    \/ Publish
    \/ UpdateStart
    \/ ExpireTick
    \/ RetryTick
    \/ RefreshTick

SpecUpdate == InitUpdate /\ [][NextUpdate]_vars

\* the step is one iteration of Update's loop, taken for ticker k
Ticked(k) == upd.pcl = "select" /\ masters' = masters /\ ev'.tick = k

\* the iteration that the step has run failed in its check or its transfer
FailedRun == ev'.check = "err" \/ ev'.xfer \notin {"none", "nil"}

\* the iteration has run shouldTransfer
Checked == ev'.check # "none"

\* C27: the zone becomes expired only in an expire iteration taken while
\* retry is active; an expire iteration taken while retry is not active
\* leaves the zone as it is. Retry becomes active only by a refresh
\* iteration that failed and stays active until an iteration has checked
\* (and, if needed, transferred) without error.
C27_ExpireOnlyInRetry ==
    /\ [][(~zone.expired /\ zone'.expired) =>
             (Ticked("expire") /\ upd.retryActive)]_vars
    /\ [][(Ticked("expire") /\ ~upd.retryActive) => zone' = zone]_vars
    /\ [][(Ticked("expire") /\ upd.retryActive) => zone'.expired]_vars
    /\ [][(~upd.retryActive /\ upd'.retryActive) =>
             (Ticked("refresh") /\ FailedRun)]_vars
    /\ [][(upd.retryActive /\ ~upd'.retryActive) =>
             (Checked /\ ~FailedRun)]_vars

\* the expire ticker fired during retry and the zone is expired
C27_Witness ==
    /\ zone.expired /\ upd.retryActive
    /\ ev.tick = "expire" /\ ev.active

\* C28: a refresh iteration that fails activates retry; a retry iteration
\* during retry checks again (and transfers if needed), and a failing one
\* leaves retry active and the tickers running; an iteration that checks
\* (and transfers) without error deactivates retry and replaces the three
\* tickers by tickers made from the zone's SOA as it is then; a retry
\* iteration outside retry changes nothing.
C28_RetryCycle ==
    /\ [][(Ticked("refresh") \/ (Ticked("retry") /\ upd.retryActive)) =>
             /\ Checked
             /\ IF FailedRun
                THEN /\ upd'.retryActive
                     /\ upd'.tickers = upd.tickers
                     /\ ~ev'.restarted
                     /\ zone' = zone
                ELSE /\ ~upd'.retryActive
                     /\ ev'.restarted
                     /\ upd'.tickers = zone'.soa.times]_vars
    /\ [][(Ticked("retry") /\ ~upd.retryActive) =>
             (~Checked /\ zone' = zone /\ upd' = upd)]_vars

\* a retry iteration has transferred a later version of the zone and the
\* tickers run with the times of its SOA
C28_Witness ==
    /\ ev.tick = "retry" /\ ev.active /\ ev.check = "newer" /\ ev.xfer = "nil"
    /\ ev.restarted /\ ~upd.retryActive
    /\ zone.soa.serial = 1 /\ upd.tickers = SoaTimes(1)
    /\ upd.tickers # SoaTimes(0)

(***************************************************************************)
(* What TransferIn leaves of the live zone                                 *)
(***************************************************************************)

\* the call of TransferIn that has just returned
TransferReturned == ev.tick = "none" /\ ev'.tick = "transfer"

\* C31: a call of TransferIn that returns an error leaves the tree, the
\* apex and Expired of the live zone as they were; they change only in a
\* call that returns nil after a transfer completed, and then the apex is
\* that master's, Expired is cleared and the tree is the transferred one,
\* all in the one step taken under the zone lock.
C31_ErrorLeavesZone ==
    [][TransferReturned =>
          /\ ev'.xfer # "nil" => zone' = zone
          /\ zone' # zone =>
                /\ ev'.xfer = "nil"
                /\ FirstComplete(ev'.outs) # 0
                /\ zone'.soa = SoaOf(masters[FirstComplete(ev'.outs)])
                /\ ~zone'.expired
                /\ FirstComplete(ev'.outs) \in zone'.parts]_vars

\* a transfer that failed after records had been inserted in the copy, on
\* a zone that was expired and still is
C31_Witness ==
    /\ ev.tick = "transfer"
    /\ ev.xfer # "nil"
    /\ \E i \in 1..Len(ev.outs) : ev.outs[i] = "insert"
    /\ zone.expired
    /\ zone.parts = {1}

\* C32 as stated: the tree set live by a call of TransferIn that returns nil
\* holds the records of the master whose transfer completed and of no
\* other master.
C32_OnlyCompletedMaster ==
    [][(TransferReturned /\ ev'.xfer = "nil" /\ FirstComplete(ev'.outs) # 0) =>
          zone'.parts = {FirstComplete(ev'.outs)}]_vars

(***************************************************************************)
(* ServePacket, Stop and the server mutex                                  *)
(***************************************************************************)

\* Stop (lines 111-115, 360-364) is called
StopCall ==
    /\ ~crashed /\ stop = "idle"
    /\ stop' = "waiting"
    /\ UNCHANGED <<srvTls, mutex, listen, serve, sess, sw, st, bufFree, crashed>>
    /\ UNCHANGED <<proxyVars, frameVars, zoneVars>>

\* Stop line 112: s.m.Lock() returns once the mutex is free
StopLock ==
    /\ ~crashed /\ stop = "waiting" /\ mutex = "free"
    /\ mutex' = "held"
    /\ stop' = "locked"
    /\ UNCHANGED <<srvTls, listen, serve, sess, sw, st, bufFree, crashed>>
    /\ UNCHANGED <<proxyVars, frameVars, zoneVars>>

\* Stop lines 113-114: s.listen.Close(), a call on a nil interface value
\* when no listener was made, which panics; the deferred Unlock runs
StopClose ==
    /\ ~crashed /\ stop = "locked"
    /\ mutex' = "free"
    /\ IF listen = "nil"
       THEN listen' = listen /\ crashed' = TRUE /\ stop' = "panicked"
       ELSE listen' = "closed" /\ crashed' = crashed /\ stop' = "returned"
    /\ UNCHANGED <<srvTls, serve, sess, sw, st, bufFree>>
    /\ UNCHANGED <<proxyVars, frameVars, zoneVars>>

NextStop ==
    \/ ServePacket
    \/ ServeAccept
    \/ ServeAcceptErr
    \/ \E s \in Sessions : SessionAcceptStream(s)
    \/ \E s \in Sessions : SessionAcceptErr(s)
    \/ StopCall
    \/ StopLock
    \/ StopClose

SpecStop == InitQUIC /\ [][NextStop]_vars

\* C33 as stated: once ServePacket has returned the server mutex is free
\* unless Stop itself holds it, so that a Stop that waits for the mutex gets
\* it, and Stop never calls Close without a listener having been made.
C33_StopAfterServe ==
    /\ (serve = "returned" /\ stop # "locked") => mutex = "free"
    /\ stop # "panicked"

====
